---- MODULE Spec2Model ----
(***************************************************************************)
(* State-machine model of homebridge-unifi-protect-motion-trigger:         *)
(* ProtectMotionPlatform (inventory reconciliation and packet routing) and *)
(* CameraAccessory (motion debounce, local motion filter, LED toggle).     *)
(*                                                                         *)
(* Objects live in stores indexed by small naturals: accessory objects     *)
(* (PlatformAccessory), CameraAccessory instances, Node timers and         *)
(* remote LED updates in flight.  An optional JavaScript value             *)
(* (undefined or a value) is a set with no or one element.  Time is        *)
(* counted in ticks; a Node timer carries the ticks left until it is due.  *)
(***************************************************************************)
EXTENDS Integers, Sequences, FiniteSets, TLC

\* ---------------------------------------------------------------- bounds
\* Largest lastMotion timestamp a feed packet carries.
MaxT == 2
\* motionDuration * 1000 ms, in ticks.
MotionTicks == 2
\* Number of controller entries discoverControllers walks through.
MaxControllers == 2
\* LED toggles that may be under way at once (remote update in flight or
\* revert timer pending).
MaxLedReqs == 1
\* Accessories the host restores from its cache before launch.
MaxCached == 1
\* Message handlers registered on a ProtectClient over a run.
MaxHandlers == 2
\* Successful connects of a ProtectClient (listeners it adds to its api).
MaxConnects == 2

\* The 100 ms of the LED revert setTimeout, in ticks.
RevertTicks == 1

Controllers == {"A", "B"}
CamIds == {"c1", "c2"}
Names == {"n1"}
OptBool == {{}, {TRUE}, {FALSE}}
\* ledSettings?.isEnabled of a listed camera (absent reads as true)
CamLed == {{}, {FALSE}}

\* ------------------------------------------------------- small utilities
\* x ?? d
Get(o, d) == IF o = {} THEN d ELSE CHOOSE v \in o : TRUE
\* Map.set / object creation in a store
Put(f, k, v) == [x \in (DOMAIN f) \cup {k} |-> IF x = k THEN v ELSE f[x]]
Restrict(f, S) == [x \in (DOMAIN f) \cap S |-> f[x]]
\* A fresh object id: <<base, n>>, n the least number that makes it unused
NewId(used, base) ==
  LET n == CHOOSE n \in 1..(Cardinality(used) + 1) :
             <<base, n>> \notin used /\ \A m \in 1..(n - 1) : <<base, m>> \in used
  IN <<base, n>>
Min(a, b) == IF a < b THEN a ELSE b
Max(a, b) == IF a < b THEN b ELSE a

\* api.hap.uuid.generate(`${controllerAddress}:${camera.id}`): a
\* deterministic function of the two parts.
uuidGenerate(controllerAddress, id) == <<controllerAddress, ":", id>>

VARIABLES
  launched,      \* didFinishLaunching has been emitted
  ctrlIdx,       \* controller entries discoverControllers has dealt with
  subs,          \* controllers whose client has a message subscription
  accessories,   \* this.accessories (ids of accessory objects)
  acc,           \* accessory objects: UUID, context, characteristic values
  inst,          \* CameraAccessory instances
  configured,    \* this.configuredAccessories: camera id -> instance
  timers,        \* pending Node timers: handle -> [kind, inst, left]
  ledReqs,       \* remote LED updates awaiting their result
  lastOp,        \* history: the operation that produced this state
  maxSeen,       \* history: largest timestamp handed to each instance
  elapsed,       \* history: ticks since the last increasing motion call
  expected,      \* history: last local motionEnabled toggle per accessory
  reqWrite,      \* history: push received while an LED update is pending
  lastList,      \* history: the live list of each controller's last pass
  client,        \* a ProtectClient: connected, messageHandlers, its ProtectApi
  clientOut      \* history: the last call on the client and what came of it

vars == <<launched, ctrlIdx, subs, accessories, acc, inst, configured,
          timers, ledReqs, lastOp, maxSeen, elapsed, expected, reqWrite,
          lastList, client, clientOut>>

\* The variables of the platform and its accessories.
platformVars ==
  <<launched, ctrlIdx, subs, accessories, acc, inst, configured, timers,
    ledReqs, lastOp, maxSeen, elapsed, expected, reqWrite, lastList>>

\* The program state the handlers read and write, as one record.
St ==
  [accessories |-> accessories, acc |-> acc, inst |-> inst,
   configured |-> configured, timers |-> timers, ledReqs |-> ledReqs]


\* ------------------------------------------------------ CameraAccessory
\* get isMotionEnabled(): accessory.context.motionEnabled ?? true
isMotionEnabled(s, i) == Get(s.acc[s.inst[i].acc].motionEnabled, TRUE)

\* setTimeout(callback, left): a new timer handle
setTimeout(s, kind, i, left) ==
  Put(s.timers, NewId(DOMAIN s.timers, <<i, kind>>), [kind |-> kind, inst |-> i, left |-> left])

\* clearTimeout(handle): no effect on a handle that is not pending
clearTimeout(tm, h) == Restrict(tm, (DOMAIN tm) \ h)

updateMotionSensorState(s, i, detected) ==
  [s EXCEPT !.inst[i].motionDetected = detected,
            !.acc[s.inst[i].acc].charMotion = {detected}]

updateLedSwitchState(s, i, enabled) ==
  [s EXCEPT !.acc[s.inst[i].acc].charLed = {enabled}]

\* clearMotion without the clearTimeout
clearMotion_KeepTimer(s, i) == updateMotionSensorState(s, i, FALSE)

clearMotion(s, i) ==
  LET s1 == IF s.inst[i].motionTimeout # {}
            THEN [s EXCEPT !.timers = clearTimeout(@, s.inst[i].motionTimeout),
                           !.inst[i].motionTimeout = {}]
            ELSE s
  IN updateMotionSensorState(s1, i, FALSE)

\* triggerMotion that leaves a timer that is already armed as it is
triggerMotion_NoRearm(s, i) ==
  IF s.inst[i].motionTimeout # {} THEN updateMotionSensorState(s, i, TRUE)
  ELSE LET s2 == updateMotionSensorState(s, i, TRUE)
           h  == NewId(DOMAIN s2.timers, <<i, "motion">>)
       IN [s2 EXCEPT !.timers = setTimeout(s2, "motion", i, MotionTicks),
                     !.inst[i].motionTimeout = {h}]

\* triggerMotion without the clearTimeout of the timer already armed
triggerMotion_NoCancel(s, i) ==
  LET s2 == updateMotionSensorState(s, i, TRUE)
      h  == NewId(DOMAIN s2.timers, <<i, "motion">>)
  IN [s2 EXCEPT !.timers = setTimeout(s2, "motion", i, MotionTicks),
                !.inst[i].motionTimeout = {h}]

triggerMotion(s, i) ==
  LET s1 == IF s.inst[i].motionTimeout # {}
            THEN [s EXCEPT !.timers = clearTimeout(@, s.inst[i].motionTimeout),
                           !.inst[i].motionTimeout = {}]
            ELSE s
      s2 == updateMotionSensorState(s1, i, TRUE)
      h  == NewId(DOMAIN s2.timers, <<i, "motion">>)
  IN [s2 EXCEPT !.timers = setTimeout(s2, "motion", i, MotionTicks),
                !.inst[i].motionTimeout = {h}]

\* handleMotionEvent with < for <= in the duplicate test
handleMotionEvent_Lt(s, i, lastMotion) ==
  IF lastMotion.kind = "null" THEN s
  ELSE IF lastMotion.v < s.inst[i].lastMotionTime THEN s
  ELSE LET s1 == [s EXCEPT !.inst[i].lastMotionTime = lastMotion.v]
       IN IF ~isMotionEnabled(s1, i) THEN s1 ELSE triggerMotion(s1, i)

\* handleMotionEvent that takes every timestamp that differs from
\* lastMotionTime
handleMotionEvent_Neq(s, i, lastMotion) ==
  IF lastMotion.kind = "null" THEN s
  ELSE IF lastMotion.v = s.inst[i].lastMotionTime THEN s
  ELSE LET s1 == [s EXCEPT !.inst[i].lastMotionTime = lastMotion.v]
       IN IF ~isMotionEnabled(s1, i) THEN s1 ELSE triggerMotion(s1, i)

\* handleMotionEvent that tests isMotionEnabled before it writes
\* lastMotionTime
handleMotionEvent_FilterFirst(s, i, lastMotion) ==
  IF lastMotion.kind = "null" THEN s
  ELSE IF lastMotion.v <= s.inst[i].lastMotionTime THEN s
  ELSE IF ~isMotionEnabled(s, i) THEN s
  ELSE triggerMotion([s EXCEPT !.inst[i].lastMotionTime = lastMotion.v], i)

\* lastMotion is [kind |-> "null"] or [kind |-> "num", v |-> t]
handleMotionEvent(s, i, lastMotion) ==
  IF lastMotion.kind = "null" THEN s
  ELSE IF lastMotion.v <= s.inst[i].lastMotionTime THEN s
  ELSE LET s1 == [s EXCEPT !.inst[i].lastMotionTime = lastMotion.v]
       IN IF ~isMotionEnabled(s1, i) THEN s1 ELSE triggerMotion(s1, i)

\* setMotionEnabled that only stores the flag
setMotionEnabled_NoClear(s, i, enabled) ==
  LET a == s.inst[i].acc
  IN [s EXCEPT !.acc[a].motionEnabled = {enabled},
               !.acc[a].statusActive = {enabled}]

\* setMotionEnabled that, on enabling, triggers motion for a timestamp the
\* instance already holds
setMotionEnabled_Replay(s, i, enabled) ==
  LET a  == s.inst[i].acc
      s1 == [s EXCEPT !.acc[a].motionEnabled = {enabled},
                      !.acc[a].statusActive = {enabled}]
  IN IF ~enabled /\ s1.inst[i].motionDetected THEN clearMotion(s1, i)
     ELSE IF enabled /\ ~s1.inst[i].motionDetected /\ s1.inst[i].lastMotionTime > 0
          THEN triggerMotion(s1, i)
     ELSE s1

setMotionEnabled(s, i, enabled) ==
  LET a  == s.inst[i].acc
      s1 == [s EXCEPT !.acc[a].motionEnabled = {enabled},
                      !.acc[a].statusActive = {enabled}]
  IN IF ~enabled /\ s1.inst[i].motionDetected THEN clearMotion(s1, i) ELSE s1

handleLedSettingsUpdate(s, i, isEnabled) ==
  updateLedSwitchState([s EXCEPT !.inst[i].ledEnabled = isEnabled], i, isEnabled)

\* setLedEnabled up to its await: the remote update is sent.
setLedEnabled(s, i, enabled) ==
  [s EXCEPT !.ledReqs =
     Put(@, NewId(DOMAIN @, i), [inst |-> i, enabled |-> enabled])]

\* setLedEnabledResume that commits ledEnabled whatever the result
setLedEnabledResume_CommitOnFailure(s, r, result) ==
  LET i  == s.ledReqs[r].inst
      en == s.ledReqs[r].enabled
      s1 == [s EXCEPT !.ledReqs = Restrict(@, (DOMAIN @) \ {r})]
      s2 == IF result = "true"
            THEN [s1 EXCEPT !.inst[i].ledEnabled = en]
            ELSE [s1 EXCEPT !.inst[i].ledEnabled = en,
                            !.timers = setTimeout(s1, "revert", i, RevertTicks)]
  IN [s2 EXCEPT !.acc[s2.inst[i].acc].charLed = {en}]

\* setLedEnabledResume that does not write ledEnabled on success
setLedEnabledResume_NoCommit(s, r, result) ==
  LET i  == s.ledReqs[r].inst
      en == s.ledReqs[r].enabled
      s1 == [s EXCEPT !.ledReqs = Restrict(@, (DOMAIN @) \ {r})]
      s2 == IF result = "true" THEN s1
            ELSE [s1 EXCEPT !.timers = setTimeout(s1, "revert", i, RevertTicks)]
  IN [s2 EXCEPT !.acc[s2.inst[i].acc].charLed = {en}]

\* setLedEnabled after its await.  result is "true", "false" (a falsy
\* result) or "throw" (updateDevice rejected).  The returned promise
\* resolves in every case, and the host then stores the written value in
\* the On characteristic, which is what the scheduled revert undoes.
setLedEnabledResume(s, r, result) ==
  LET i  == s.ledReqs[r].inst
      en == s.ledReqs[r].enabled
      s1 == [s EXCEPT !.ledReqs = Restrict(@, (DOMAIN @) \ {r})]
      s2 == IF result = "true"
            THEN [s1 EXCEPT !.inst[i].ledEnabled = en]
            ELSE [s1 EXCEPT !.timers = setTimeout(s1, "revert", i, RevertTicks)]
  IN [s2 EXCEPT !.acc[s2.inst[i].acc].charLed = {en}]

\* The callback of the revert timer.
revertLedSwitch(s, i) ==
  [s EXCEPT !.acc[s.inst[i].acc].charLed = {s.inst[i].ledEnabled}]

\* new CameraAccessory(platform, accessory, client, motionDuration); the
\* onGet/onSet handlers of the accessory's services now belong to it.
CameraAccessory(s, a) ==
  LET i   == NewId(DOMAIN s.inst, a)
      camera == CHOOSE c \in s.acc[a].camera : TRUE
      led == Get(camera.led, TRUE)
      obj == [acc |-> a, motionTimeout |-> {}, lastMotionTime |-> 0,
              motionDetected |-> FALSE, ledEnabled |-> led]
      s1  == [s EXCEPT !.inst = Put(@, i, obj), !.acc[a].onSet = {i}]
  IN updateLedSwitchState(updateMotionSensorState(s1, i, FALSE), i, led)


\* ------------------------------------------------ ProtectMotionPlatform
\* new this.api.platformAccessory(camera.name, uuid): empty context, no
\* services yet.
platformAccessory(uuid) ==
  [UUID |-> uuid, controllerAddress |-> {}, camera |-> {}, motionEnabled |-> {},
   charMotion |-> {}, charLed |-> {}, statusActive |-> {}, onSet |-> {}]

\* A camera of the live list: [id, name, led], led being
\* ledSettings?.isEnabled.
Cameras == [id : CamIds, name : Names, led : CamLed]

\* configureCamera that sets context.motionEnabled to true on every pass
configureCamera_ResetEnabled(s, camera, controllerAddress) ==
  LET uuid  == uuidGenerate(controllerAddress, camera.id)
      found == {a \in s.accessories : s.acc[a].UUID = uuid}
      isNew == found = {}
      a     == IF isNew THEN NewId(DOMAIN s.acc, uuid) ELSE CHOOSE x \in found : TRUE
      s1    == IF isNew
               THEN [s EXCEPT !.acc = Put(@, a, platformAccessory(uuid)),
                              !.accessories = @ \cup {a}]
               ELSE s
      s2    == [s1 EXCEPT !.acc[a].camera = {camera},
                          !.acc[a].controllerAddress = {controllerAddress},
                          !.acc[a].motionEnabled = {TRUE}]
      s3    == CameraAccessory(s2, a)
  IN [s3 EXCEPT !.configured = Put(@, camera.id, Get(s3.acc[a].onSet, <<>>))]

\* configureCamera that never finds the accessory among this.accessories
configureCamera_AlwaysNew(s, camera, controllerAddress) ==
  LET uuid  == uuidGenerate(controllerAddress, camera.id)
      a     == NewId(DOMAIN s.acc, uuid)
      s1    == [s EXCEPT !.acc = Put(@, a, platformAccessory(uuid)),
                         !.accessories = @ \cup {a}]
      s2    == [s1 EXCEPT !.acc[a].camera = {camera},
                          !.acc[a].controllerAddress = {controllerAddress},
                          !.acc[a].motionEnabled = {Get(@, TRUE)}]
      s3    == CameraAccessory(s2, a)
  IN [s3 EXCEPT !.configured = Put(@, camera.id, Get(s3.acc[a].onSet, <<>>))]

\* One iteration of the loop of configureCameras.
configureCamera(s, camera, controllerAddress) ==
  LET uuid  == uuidGenerate(controllerAddress, camera.id)
      found == {a \in s.accessories : s.acc[a].UUID = uuid}
      isNew == found = {}
      a     == IF isNew THEN NewId(DOMAIN s.acc, uuid) ELSE CHOOSE x \in found : TRUE
      s1    == IF isNew
               THEN [s EXCEPT !.acc = Put(@, a, platformAccessory(uuid)),
                              !.accessories = @ \cup {a}]
               ELSE s
      s2    == [s1 EXCEPT !.acc[a].camera = {camera},
                          !.acc[a].controllerAddress = {controllerAddress},
                          !.acc[a].motionEnabled = {Get(@, TRUE)}]
      s3    == CameraAccessory(s2, a)
  IN [s3 EXCEPT !.configured = Put(@, camera.id, Get(s3.acc[a].onSet, <<>>))]

\* removeStaleAccessories without the controllerAddress test
removeStaleAccessories_AnyController(s, cameras, controllerAddress) ==
  LET validUUIDs ==
        {uuidGenerate(controllerAddress, cameras[k].id) : k \in DOMAIN cameras}
      accessoriesToRemove ==
        {a \in s.accessories : s.acc[a].UUID \notin validUUIDs}
  IN [s EXCEPT !.accessories = @ \ accessoriesToRemove]

removeStaleAccessories(s, cameras, controllerAddress) ==
  LET validUUIDs ==
        {uuidGenerate(controllerAddress, cameras[k].id) : k \in DOMAIN cameras}
      accessoriesToRemove ==
        {a \in s.accessories :
           /\ s.acc[a].controllerAddress = {controllerAddress}
           /\ s.acc[a].UUID \notin validUUIDs}
  IN [s EXCEPT !.accessories = @ \ accessoriesToRemove]

RECURSIVE configureLoop(_, _, _, _)
configureLoop(s, cameras, k, controllerAddress) ==
  IF k > Len(cameras) THEN s
  ELSE configureLoop(configureCamera(s, cameras[k], controllerAddress),
                     cameras, k + 1, controllerAddress)

configureCameras(s, cameras, controllerAddress) ==
  removeStaleAccessories(configureLoop(s, cameras, 1, controllerAddress),
                         cameras, controllerAddress)

\* A feed packet: action is {} or {[action, modelKey, id]}, payload is {} or
\* {[lastMotion, ledSettings]}; lastMotion is {} (undefined) or a value of
\* LastMotions, ledSettings is {} or {isEnabled}.
LastMotions == {[kind |-> "null", v |-> 0]} \cup {[kind |-> "num", v |-> t] : t \in 1..MaxT}
Actions == [action : {"update", "delete"}, modelKey : {"camera", "other"},
            id : CamIds \cup {"cX"}]
Payloads == [lastMotion : {{}} \cup {{m} : m \in LastMotions}, ledSettings : OptBool]
Packets == [action : {{}} \cup {{x} : x \in Actions},
            payload : {{}} \cup {{x} : x \in Payloads}]

\* The instance handleProtectMessage dispatches a packet to, if any.
routeTarget(s, packet) ==
  IF packet.action = {} \/ packet.payload = {} THEN {}
  ELSE LET act == Get(packet.action, 0) IN
       IF act.modelKey # "camera" \/ act.action # "update" THEN {}
       ELSE IF act.id \notin DOMAIN s.configured THEN {}
       ELSE {s.configured[act.id]}

\* handleProtectMessage without the modelKey / action test
handleProtectMessage_NoFilter(s, packet) ==
  IF packet.action = {} \/ packet.payload = {} THEN s
  ELSE LET act == Get(packet.action, 0) IN
       IF act.id \notin DOMAIN s.configured THEN s
       ELSE LET i  == s.configured[act.id]
                cameraPayload == Get(packet.payload, 0)
                s1 == IF cameraPayload.lastMotion # {}
                      THEN handleMotionEvent(s, i, Get(cameraPayload.lastMotion, 0))
                      ELSE s
            IN IF cameraPayload.ledSettings # {}
               THEN handleLedSettingsUpdate(s1, i, Get(cameraPayload.ledSettings, TRUE))
               ELSE s1

\* handleProtectMessage with the ledSettings test in the else branch of the
\* lastMotion test
handleProtectMessage_ElseIf(s, packet) ==
  LET target == routeTarget(s, packet) IN
  IF target = {} THEN s
  ELSE LET i  == Get(target, 0)
           cameraPayload == Get(packet.payload, 0)
       IN IF cameraPayload.lastMotion # {}
          THEN handleMotionEvent(s, i, Get(cameraPayload.lastMotion, 0))
          ELSE IF cameraPayload.ledSettings # {}
          THEN handleLedSettingsUpdate(s, i, Get(cameraPayload.ledSettings, TRUE))
          ELSE s

\* The handlers handleProtectMessage calls for the payload of a packet it
\* dispatches (lines 195 to 204), in the order of the calls.
handlerCalls(cameraPayload) ==
  (IF cameraPayload.lastMotion # {} THEN <<"handleMotionEvent">> ELSE <<>>)
  \o (IF cameraPayload.ledSettings # {} THEN <<"handleLedSettingsUpdate">> ELSE <<>>)

handleProtectMessage(s, packet) ==
  LET target == routeTarget(s, packet) IN
  IF target = {} THEN s
  ELSE LET i  == Get(target, 0)
           cameraPayload == Get(packet.payload, 0)
           s1 == IF cameraPayload.lastMotion # {}
                 THEN handleMotionEvent(s, i, Get(cameraPayload.lastMotion, 0))
                 ELSE s
       IN IF cameraPayload.ledSettings # {}
          THEN handleLedSettingsUpdate(s1, i, Get(cameraPayload.ledSettings, TRUE))
          ELSE s1

\* --------------------------------------------------- garbage collection
\* An instance can still act when a service handler, the routing map, a
\* pending timer or a pending remote update refers to it; an accessory
\* object when it is listed or such an instance refers to it.  Everything
\* else is unreachable and is dropped from the stores.
liveInst(s) ==
  {i \in DOMAIN s.inst :
     \/ \E a \in s.accessories : s.acc[a].onSet = {i}
     \/ \E c \in DOMAIN s.configured : s.configured[c] = i
     \/ \E h \in DOMAIN s.timers : s.timers[h].inst = i
     \/ \E r \in DOMAIN s.ledReqs : s.ledReqs[r].inst = i}

liveAcc(s) == s.accessories \cup {s.inst[i].acc : i \in liveInst(s)}

collect(s) ==
  [s EXCEPT !.inst = Restrict(@, liveInst(s)), !.acc = Restrict(@, liveAcc(s))]


\* ------------------------------------------------------------- history
\* lastOp: op names the operation, i the instance it ran on (if any), v its
\* boolean argument (for a packet: its target was Active), r its outcome or
\* kind, w the push a settled LED update had seen while it was pending (for
\* a packet: the ledSettings it carries); from the controller the operation
\* is about, list the live list of a pass and prev the list of that
\* controller's pass before it, why the reason a packet was not dispatched,
\* calls the device handlers a packet was dispatched to, in order.
Op(op, i, v, r, w) ==
  [op |-> op, i |-> i, v |-> v, r |-> r, w |-> w,
   from |-> {}, list |-> <<>>, prev |-> {}, why |-> "", calls |-> <<>>]
\* The list of the last pass for a controller, if it had one.
PrevList(ll, c) == IF c \in DOMAIN ll THEN {ll[c]} ELSE {}
Carry(f, D, d) == [x \in D |-> IF x \in DOMAIN f THEN f[x] ELSE d]

Commit(s) ==
  /\ accessories' = s.accessories
  /\ acc' = s.acc
  /\ inst' = s.inst
  /\ configured' = s.configured
  /\ timers' = s.timers
  /\ ledReqs' = s.ledReqs

\* History of objects created or dropped by a step that does not otherwise
\* touch it.
KeepHistory(s) ==
  /\ maxSeen' = Carry(maxSeen, DOMAIN s.inst, 0)
  /\ elapsed' = Carry(elapsed, DOMAIN s.inst, {})
  /\ expected' = Carry(expected, DOMAIN s.acc, TRUE)
  /\ reqWrite' = Carry(reqWrite, DOMAIN s.ledReqs, {})

\* -------------------------------------------------------- ProtectClient
\* Status codes an error is constructed with; {} is no status code.
StatusCodes == {{}, {0}, {200}, {400}, {401}, {402}, {403}, {404}, {500}}

\* new ProtectApiError(message, statusCode) with isAuthError = only 401
ProtectApiError_Only401(statusCode) ==
  [name |-> "ProtectApiError", statusCode |-> statusCode,
   isAuthError |-> statusCode = {401}]

\* new ProtectApiError(message, statusCode)
ProtectApiError(statusCode) ==
  [name |-> "ProtectApiError", statusCode |-> statusCode,
   isAuthError |-> (statusCode = {401} \/ statusCode = {403})]

\* new ProtectClient(log).  listeners counts the 'message' listeners connect
\* has added to this.api, apiBootstrap is this.api.bootstrap, ledPending the
\* updateCameraLed call waiting for api.updateDevice.
ProtectClient ==
  [connected |-> FALSE, messageHandlers |-> <<>>, listeners |-> 0,
   apiBootstrap |-> {}, ledPending |-> {}]

\* What a call on the client came to: kind is "return", "raise" or "await".
Ret(c, kind, value, err) == [client |-> c, kind |-> kind, value |-> value, err |-> err]

\* connect that returns false when the login is rejected
connect_ReturnsFalse(c, login, boot, cams) ==
  IF login = "throw" THEN Ret(c, "raise", FALSE, {ProtectApiError({})})
  ELSE IF login = "false" THEN Ret(c, "return", FALSE, {})
  ELSE IF boot = "throw" THEN Ret(c, "raise", FALSE, {ProtectApiError({})})
  ELSE IF boot = "false" THEN Ret(c, "raise", FALSE, {ProtectApiError({})})
  ELSE Ret([c EXCEPT !.connected = TRUE, !.listeners = @ + 1,
                     !.apiBootstrap = {cams}],
           "return", TRUE, {})

\* connect(address, username, password); login and boot are what api.login
\* and api.getBootstrap come to ("true", "false" or "throw"), cams the
\* cameras of the bootstrap.  An error that is not a ProtectApiError is
\* wrapped in one without a status code.
connect(c, login, boot, cams) ==
  IF login = "throw" THEN Ret(c, "raise", FALSE, {ProtectApiError({})})
  ELSE IF login = "false" THEN Ret(c, "raise", FALSE, {ProtectApiError({401})})
  ELSE IF boot = "throw" THEN Ret(c, "raise", FALSE, {ProtectApiError({})})
  ELSE IF boot = "false" THEN Ret(c, "raise", FALSE, {ProtectApiError({})})
  ELSE Ret([c EXCEPT !.connected = TRUE, !.listeners = @ + 1,
                     !.apiBootstrap = {cams}],
           "return", TRUE, {})

onMessage(c, handler) == [c EXCEPT !.messageHandlers = Append(@, handler)]

\* updateCameraLed up to its await.
updateCameraLed(c, enabled) ==
  IF ~c.connected THEN Ret(c, "return", FALSE, {})
  ELSE Ret([c EXCEPT !.ledPending = {enabled}], "await", FALSE, {})

\* updateCameraLedResume that lets a rejection of api.updateDevice through
updateCameraLedResume_Rethrow(c, result) ==
  IF result = "throw"
  THEN Ret([c EXCEPT !.ledPending = {}], "raise", FALSE, {ProtectApiError({})})
  ELSE Ret([c EXCEPT !.ledPending = {}], "return", result = "true", {})

\* updateCameraLed after its await; result is what api.updateDevice came to.
updateCameraLedResume(c, result) ==
  Ret([c EXCEPT !.ledPending = {}], "return", result = "true", {})

\* disconnect that leaves the handlers registered
disconnect_KeepsHandlers(c) ==
  IF c.connected THEN [c EXCEPT !.connected = FALSE] ELSE c

disconnect(c) ==
  IF c.connected
  THEN [c EXCEPT !.connected = FALSE, !.messageHandlers = <<>>]
  ELSE c

\* handleMessage(packet): the handlers called, in order, each inside its own
\* try/catch.
handleMessage(c) == c.messageHandlers

\* clientOut: call, kind, value and err describe the last call; login, boot
\* and remote are what the api calls inside it came to; wasConnected is
\* connected when the call was made, sentConnected the same for the pending
\* updateCameraLed; invoked are the handlers a packet reached.  reg counts
\* the handlers ever registered, calledOff holds the handlers that were
\* registered when disconnect was called, cleared those among them that were
\* registered when it was called on a connected client.
NoCall ==
  [call |-> "", kind |-> "", value |-> FALSE, err |-> {}, login |-> "",
   boot |-> "", remote |-> "", wasConnected |-> FALSE, sentConnected |-> FALSE,
   invoked |-> {}, reg |-> 0, calledOff |-> {}, cleared |-> {}]

Out(call, ret) ==
  [clientOut EXCEPT !.call = call, !.kind = ret.kind, !.value = ret.value,
                    !.err = ret.err, !.login = "", !.boot = "", !.remote = "",
                    !.wasConnected = client.connected, !.invoked = {}]

Range(q) == {q[k] : k \in DOMAIN q}

\* ------------------------------------------------------------- actions
Init ==
  /\ launched = FALSE
  /\ ctrlIdx = 0
  /\ subs = {}
  /\ accessories = {}
  /\ acc = <<>>
  /\ inst = <<>>
  /\ configured = <<>>
  /\ timers = <<>>
  /\ ledReqs = <<>>
  /\ lastOp = Op("init", {}, FALSE, "", {})
  /\ maxSeen = <<>>
  /\ elapsed = <<>>
  /\ expected = <<>>
  /\ reqWrite = <<>>
  /\ lastList = <<>>
  /\ client = ProtectClient
  /\ clientOut = NoCall

\* configureAccessory(accessory): the host hands over an accessory of an
\* earlier run, with the context that run left in it.
configureAccessory(s, accessory) ==
  LET a == NewId(DOMAIN s.acc, accessory.UUID)
  IN [s EXCEPT !.acc = Put(@, a, accessory), !.accessories = @ \cup {a}]

CachedAccessories ==
  {[platformAccessory(uuidGenerate(c, id)) EXCEPT
      !.controllerAddress = {c},
      !.camera = {[id |-> id, name |-> "n1", led |-> {}]},
      !.motionEnabled = me] :
   c \in Controllers, id \in CamIds, me \in OptBool}

ConfigureAccessoryOf(cached) ==
  /\ ~launched
  /\ Cardinality(accessories) < MaxCached
  /\ \E accessory \in cached :
       /\ \A a \in accessories : acc[a].UUID # accessory.UUID
       /\ LET s == configureAccessory(St, accessory) IN
          /\ Commit(s)
          /\ expected' = [x \in DOMAIN s.acc |->
                            IF x \in DOMAIN expected THEN expected[x]
                            ELSE Get(accessory.motionEnabled, TRUE)]
          /\ maxSeen' = maxSeen /\ elapsed' = elapsed /\ reqWrite' = reqWrite
  /\ lastOp' = Op("configureAccessory", {}, FALSE, "", {})
  /\ UNCHANGED <<client, clientOut, launched, ctrlIdx, subs, lastList>>

\* api.on('didFinishLaunching'): discoverControllers starts.
DidFinishLaunching ==
  /\ ~launched
  /\ launched' = TRUE
  /\ lastOp' = Op("didFinishLaunching", {}, FALSE, "", {})
  /\ UNCHANGED <<client, clientOut, ctrlIdx, subs, lastList, accessories, acc, inst, configured, timers,
                 ledReqs, maxSeen, elapsed, expected, reqWrite>>

\* A controller entry of the configuration; "" is a missing field.
ControllerConfigs == [address : Controllers \cup {""}, username : {"", "u"},
                      password : {"", "p"}]

validateControllerConfig(controller) ==
  IF controller.address = "" THEN FALSE
  ELSE IF controller.username = "" THEN FALSE
  ELSE IF controller.password = "" THEN FALSE
  ELSE TRUE

\* The live camera lists a controller reports (ids are unique in a list).
CameraLists ==
  {<<>>} \cup {<<c>> : c \in Cameras}
         \cup {<<c, d>> : c \in {x \in Cameras : x.id = "c1"},
                          d \in {x \in Cameras : x.id = "c2"}}

\* SkipControllerOf that ends discoverControllers at the invalid entry
SkipControllerOf_Aborts(configs) ==
  /\ launched /\ ctrlIdx < MaxControllers
  /\ \E controller \in configs :
       /\ ~validateControllerConfig(controller)
       /\ lastOp' = [Op("skip", {}, FALSE, "", {}) EXCEPT
                       !.from = {controller.address}]
  /\ ctrlIdx' = MaxControllers
  /\ UNCHANGED <<client, clientOut, launched, subs, lastList, accessories, acc, inst, configured, timers,
                 ledReqs, maxSeen, elapsed, expected, reqWrite>>

\* discoverControllers: an entry that fails validation is skipped.
SkipControllerOf(configs) ==
  /\ launched /\ ctrlIdx < MaxControllers
  /\ \E controller \in configs :
       /\ ~validateControllerConfig(controller)
       /\ lastOp' = [Op("skip", {}, FALSE, "", {}) EXCEPT
                       !.from = {controller.address}]
  /\ ctrlIdx' = ctrlIdx + 1
  /\ UNCHANGED <<client, clientOut, launched, subs, lastList, accessories, acc, inst, configured, timers,
                 ledReqs, maxSeen, elapsed, expected, reqWrite>>

\* ConnectFailedOf that treats the failure as an empty live list and removes
\* the controller's accessories
ConnectFailedOf_RemovesDevices(configs) ==
  /\ launched /\ ctrlIdx < MaxControllers
  /\ \E controller \in configs, error \in {"auth", "api", "other"} :
       /\ validateControllerConfig(controller)
       /\ LET s == collect(removeStaleAccessories(St, <<>>, controller.address)) IN
          /\ Commit(s)
          /\ KeepHistory(s)
       /\ lastOp' = [Op("connectFailed", {}, FALSE, error, {}) EXCEPT
                       !.from = {controller.address}]
  /\ ctrlIdx' = ctrlIdx + 1
  /\ UNCHANGED <<client, clientOut, launched, subs, lastList>>

\* connectToController: client.connect raises (rejected login, failed
\* bootstrap, any other error); the catch block only logs.
ConnectFailedOf(configs) ==
  /\ launched /\ ctrlIdx < MaxControllers
  /\ \E controller \in configs, error \in {"auth", "api", "other"} :
       /\ validateControllerConfig(controller)
       /\ lastOp' = [Op("connectFailed", {}, FALSE, error, {}) EXCEPT
                       !.from = {controller.address}]
  /\ ctrlIdx' = ctrlIdx + 1
  /\ UNCHANGED <<client, clientOut, launched, subs, lastList, accessories, acc, inst, configured, timers,
                 ledReqs, maxSeen, elapsed, expected, reqWrite>>

\* connectToController: connected, but client.cameras is empty: return
\* before configureCameras and before the subscription.
ConnectedNoCamerasOf(configs) ==
  /\ launched /\ ctrlIdx < MaxControllers
  /\ \E controller \in configs :
       /\ validateControllerConfig(controller)
       /\ lastOp' = [Op("noCameras", {}, FALSE, controller.address, {}) EXCEPT
                       !.from = {controller.address},
                       !.prev = PrevList(lastList, controller.address)]
       /\ lastList' = Put(lastList, controller.address, <<>>)
  /\ ctrlIdx' = ctrlIdx + 1
  /\ UNCHANGED <<client, clientOut, launched, subs, accessories, acc, inst, configured, timers,
                 ledReqs, maxSeen, elapsed, expected, reqWrite>>

\* connectToController: connected with cameras: configureCameras, then
\* the message subscription.
ReconcileOf(configs, lists) ==
  /\ launched /\ ctrlIdx < MaxControllers
  /\ \E controller \in configs, cameras \in lists \ {<<>>} :
       /\ validateControllerConfig(controller)
       /\ LET s == collect(configureCameras(St, cameras, controller.address)) IN
          /\ Commit(s)
          /\ KeepHistory(s)
       /\ subs' = subs \cup {controller.address}
       /\ lastOp' = [Op("reconcile", {}, FALSE, controller.address, {}) EXCEPT
                       !.from = {controller.address},
                       !.list = cameras,
                       !.prev = PrevList(lastList, controller.address)]
       /\ lastList' = Put(lastList, controller.address, cameras)
  /\ ctrlIdx' = ctrlIdx + 1
  /\ UNCHANGED <<client, clientOut, launched>>

\* How a packet's lastMotion relates to what its target has been handed.
PacketKind(s, packet) ==
  LET target == routeTarget(s, packet) IN
  IF target = {} THEN "drop"
  ELSE LET lm == Get(packet.payload, 0).lastMotion IN
       IF lm = {} THEN "nomotion"
       ELSE IF Get(lm, 0).kind = "null" THEN "null"
       ELSE IF Get(lm, 0).v <= maxSeen[Get(target, 0)] THEN "dup" ELSE "new"

\* Why a packet is not for any device, read off the packet and the routing
\* map: "" when it names a registered camera in an update.
DropReason(s, packet) ==
  IF packet.action = {} THEN "noAction"
  ELSE IF packet.payload = {} THEN "noPayload"
  ELSE IF (CHOOSE x \in packet.action : TRUE).modelKey # "camera" THEN "modelKey"
  ELSE IF (CHOOSE x \in packet.action : TRUE).action # "update" THEN "action"
  ELSE IF (CHOOSE x \in packet.action : TRUE).id \notin DOMAIN s.configured
       THEN "unregistered"
  ELSE ""

\* A packet of the feed of a subscribed client reaches handleProtectMessage.
PacketOf(packets) ==
  /\ \E controllerAddress \in subs, packet \in packets :
       LET s      == collect(handleProtectMessage(St, packet))
           target == routeTarget(St, packet)
           kind   == PacketKind(St, packet)
           t      == IF kind \in {"dup", "new"}
                     THEN Get(Get(packet.payload, 0).lastMotion, 0).v ELSE 0
           push   == IF target = {} THEN {} ELSE Get(packet.payload, 0).ledSettings
       IN
       /\ Commit(s)
       /\ maxSeen' = [x \in DOMAIN s.inst |->
                        IF target = {x} THEN Max(maxSeen[x], t) ELSE maxSeen[x]]
       /\ elapsed' = [x \in DOMAIN s.inst |->
                        IF target = {x} /\ kind = "new" /\ isMotionEnabled(St, x)
                        THEN {0} ELSE elapsed[x]]
       /\ reqWrite' = [r \in DOMAIN s.ledReqs |->
                        IF push # {} /\ target = {ledReqs[r].inst} THEN push
                        ELSE reqWrite[r]]
       /\ expected' = Carry(expected, DOMAIN s.acc, TRUE)
       /\ lastOp' = [Op("packet", target,
                        \E x \in target : inst[x].motionDetected, kind, push)
                     EXCEPT !.from = {controllerAddress},
                            !.why = DropReason(St, packet),
                            !.calls = IF target = {} THEN <<>>
                                      ELSE handlerCalls(Get(packet.payload, 0))]
  /\ UNCHANGED <<client, clientOut, launched, ctrlIdx, subs, lastList>>

\* handleMotionEvent when the logging call that follows the timestamp update
\* (line 184 or 190) raises: lastMotionTime is written, nothing else is.
handleMotionEventThrows(s, i, lastMotion) ==
  [s EXCEPT !.inst[i].lastMotionTime = lastMotion.v]

\* handleProtectMessage when handleMotionEvent raises: the exception leaves
\* the function, so the ledSettings branch is not reached.
handleProtectMessageThrows(s, packet) ==
  LET i == CHOOSE x \in routeTarget(s, packet) : TRUE
      cameraPayload == CHOOSE x \in packet.payload : TRUE
  IN handleMotionEventThrows(s, i, CHOOSE m \in cameraPayload.lastMotion : TRUE)

\* A packet reaches handleProtectMessage and its motion handler raises; the
\* try/catch of ProtectClient.handleMessage logs the error and goes on.
PacketThrowsOf(packets) ==
  /\ \E controllerAddress \in subs, packet \in packets :
       LET target == routeTarget(St, packet) IN
       /\ target # {}
       /\ PacketKind(St, packet) \in {"dup", "new"}
       /\ LET i == CHOOSE x \in target : TRUE
              t == (CHOOSE m \in (CHOOSE x \in packet.payload : TRUE).lastMotion : TRUE).v
              s == collect(handleProtectMessageThrows(St, packet))
          IN
          /\ t > inst[i].lastMotionTime
          /\ Commit(s)
          /\ maxSeen' = [x \in DOMAIN s.inst |->
                           IF x = i THEN Max(maxSeen[x], t) ELSE maxSeen[x]]
          /\ elapsed' = Carry(elapsed, DOMAIN s.inst, {})
          /\ expected' = Carry(expected, DOMAIN s.acc, TRUE)
          /\ reqWrite' = Carry(reqWrite, DOMAIN s.ledReqs, {})
          /\ lastOp' = [Op("packetThrows", target, inst[i].motionDetected, "caught",
                           (CHOOSE x \in packet.payload : TRUE).ledSettings)
                        EXCEPT !.from = {controllerAddress}]
  /\ UNCHANGED <<client, clientOut, launched, ctrlIdx, subs, lastList>>

\* The user flips the "Motion Enabled" switch of a listed accessory: the
\* host calls the onSet handler bound by the newest instance.
SetMotionEnabled ==
  /\ \E a \in accessories, value \in BOOLEAN :
       /\ acc[a].onSet # {}
       /\ LET i == Get(acc[a].onSet, 0)
              s == collect(setMotionEnabled(St, i, value))
          IN
          /\ Commit(s)
          /\ expected' = [x \in DOMAIN s.acc |-> IF x = a THEN value ELSE expected[x]]
          /\ elapsed' = [x \in DOMAIN s.inst |->
                           IF ~value /\ inst[x].acc = a THEN {} ELSE elapsed[x]]
          /\ maxSeen' = Carry(maxSeen, DOMAIN s.inst, 0)
          /\ reqWrite' = reqWrite
          /\ lastOp' = Op("setMotionEnabled", {i}, value,
                          IF inst[i].motionDetected THEN "active" ELSE "idle", {})
  /\ UNCHANGED <<client, clientOut, launched, ctrlIdx, subs, lastList>>

\* Pending revert timers.
RevertTimers(tm) == {h \in DOMAIN tm : tm[h].kind = "revert"}

\* The user flips the "Status LED" switch: setLedEnabled runs up to its
\* await.
SetLedEnabled ==
  /\ Cardinality(DOMAIN ledReqs) + Cardinality(RevertTimers(timers)) < MaxLedReqs
  /\ \E a \in accessories, value \in BOOLEAN :
       /\ acc[a].onSet # {}
       /\ LET i == Get(acc[a].onSet, 0)
              s == collect(setLedEnabled(St, i, value))
          IN
          /\ Commit(s)
          /\ KeepHistory(s)
          /\ lastOp' = Op("setLedEnabled", {i}, value, "", {})
  /\ UNCHANGED <<client, clientOut, launched, ctrlIdx, subs, lastList>>

\* The remote update of a pending setLedEnabled settles.
LedResult ==
  /\ \E r \in DOMAIN ledReqs, result \in {"true", "false", "throw"} :
       LET i == ledReqs[r].inst
           s == collect(setLedEnabledResume(St, r, result))
       IN
       /\ Commit(s)
       /\ maxSeen' = Carry(maxSeen, DOMAIN s.inst, 0)
       /\ elapsed' = Carry(elapsed, DOMAIN s.inst, {})
       /\ expected' = Carry(expected, DOMAIN s.acc, TRUE)
       /\ reqWrite' = [x \in DOMAIN s.ledReqs |->
                         IF result = "true" /\ ledReqs[x].inst = i THEN {}
                         ELSE reqWrite[x]]
       /\ lastOp' = Op("ledResult", {i}, ledReqs[r].enabled, result, reqWrite[r])
  /\ UNCHANGED <<client, clientOut, launched, ctrlIdx, subs, lastList>>

\* A timer that is due runs its callback.
timerCallback(s, h) ==
  LET s1 == [s EXCEPT !.timers = Restrict(@, (DOMAIN @) \ {h})]
      i  == s.timers[h].inst
  IN IF s.timers[h].kind = "motion" THEN clearMotion(s1, i)
     ELSE revertLedSwitch(s1, i)

TimerFire ==
  /\ \E h \in DOMAIN timers :
       /\ timers[h].left = 0
       /\ LET s == collect(timerCallback(St, h)) IN
          /\ Commit(s)
          /\ KeepHistory(s)
       /\ lastOp' = Op("timer", {timers[h].inst}, FALSE, timers[h].kind, {})
  /\ UNCHANGED <<client, clientOut, launched, ctrlIdx, subs, lastList>>

\* One tick passes; a timer that is due fires before time moves on.
Tick ==
  /\ \A h \in DOMAIN timers : timers[h].left > 0
  /\ timers' = [h \in DOMAIN timers |-> [timers[h] EXCEPT !.left = @ - 1]]
  /\ elapsed' = [x \in DOMAIN elapsed |->
                   IF elapsed[x] = {} THEN {}
                   ELSE {Min(Get(elapsed[x], 0) + 1, MotionTicks + 1)}]
  /\ lastOp' = Op("tick", {}, FALSE, "", {})
  /\ UNCHANGED <<client, clientOut, launched, ctrlIdx, subs, lastList, accessories, acc, inst, configured,
                 ledReqs, maxSeen, expected, reqWrite>>

\* The whole system, every input.
Next ==
  \/ ConfigureAccessoryOf(CachedAccessories)
  \/ DidFinishLaunching
  \/ SkipControllerOf(ControllerConfigs)
  \/ ConnectFailedOf(ControllerConfigs)
  \/ ConnectedNoCamerasOf(ControllerConfigs)
  \/ ReconcileOf(ControllerConfigs, CameraLists)
  \/ PacketOf(Packets)
  \/ PacketThrowsOf(Packets)
  \/ SetMotionEnabled
  \/ SetLedEnabled
  \/ LedResult
  \/ TimerFire
  \/ Tick

Spec == Init /\ [][Next]_vars

\* ------------------------------------------------------------ typing
TypeOK ==
  /\ launched \in BOOLEAN
  /\ ctrlIdx \in 0..MaxControllers
  /\ subs \subseteq Controllers
  /\ accessories \subseteq DOMAIN acc
  /\ \A i \in DOMAIN inst :
       /\ inst[i].acc \in DOMAIN acc
       /\ inst[i].lastMotionTime \in 0..MaxT
       /\ inst[i].motionDetected \in BOOLEAN
       /\ inst[i].ledEnabled \in BOOLEAN
  /\ \A c \in DOMAIN configured : configured[c] \in DOMAIN inst
  /\ \A h \in DOMAIN timers : timers[h].inst \in DOMAIN inst
  /\ \A r \in DOMAIN ledReqs : ledReqs[r].inst \in DOMAIN inst
  /\ DOMAIN maxSeen = DOMAIN inst /\ DOMAIN elapsed = DOMAIN inst
  /\ DOMAIN expected = DOMAIN acc /\ DOMAIN reqWrite = DOMAIN ledReqs

\* ------------------------------------------- one device, motion events
\* One controller with one camera, reconciled up to MaxControllers times;
\* the feed carries motion timestamps only.  Devices share no state, so what
\* holds of this device's motion state holds of every device's.
OneController == {[address |-> "A", username |-> "u", password |-> "p"]}
MotionLists == {<<[id |-> "c1", name |-> "n1", led |-> {}]>>}
MotionPackets ==
  {p \in Packets :
     /\ p.action = {[action |-> "update", modelKey |-> "camera", id |-> "c1"]}
     /\ p.payload # {}
     /\ Get(p.payload, 0).ledSettings = {}
     /\ Get(p.payload, 0).lastMotion # {}}

NextMotion ==
  \/ DidFinishLaunching
  \/ ReconcileOf(OneController, MotionLists)
  \/ PacketOf(MotionPackets)
  \/ SetMotionEnabled
  \/ TimerFire
  \/ Tick

SpecMotion == Init /\ [][NextMotion]_vars


\* Pending motion timers of instance i.
MotionTimersOf(tm, i) == {h \in DOMAIN tm : tm[h].kind = "motion" /\ tm[h].inst = i}

C2_StaleTimestampIgnored ==
  [][(lastOp'.op = "packet" /\ lastOp'.r = "dup") =>
       \A i \in lastOp'.i :
         /\ i \in DOMAIN inst'
         /\ inst'[i].motionDetected = inst[i].motionDetected
         /\ inst'[i].lastMotionTime = inst[i].lastMotionTime
         /\ inst'[i].motionTimeout = inst[i].motionTimeout
         /\ timers' = timers
         /\ acc'[inst[i].acc].charMotion = acc[inst[i].acc].charMotion]_vars

\* A stale timestamp reached an instance that is back in Idle with motion
\* enabled.
C2_Witness ==
  /\ lastOp.op = "packet" /\ lastOp.r = "dup" /\ ~lastOp.v
  /\ \E i \in lastOp.i :
       /\ inst[i].lastMotionTime > 0
       /\ ~inst[i].motionDetected
       /\ isMotionEnabled(St, i)

\* C3: setMotionEnabled(false) leaves the instance with motionDetected false
\* and no motion timer, however many ticks the timer had left; and a motion
\* timer is only ever armed by an accepted motion event.
C3_DisableClearsMotion ==
  [][/\ (lastOp'.op = "setMotionEnabled" /\ ~lastOp'.v) =>
          \A i \in lastOp'.i :
            /\ ~inst'[i].motionDetected
            /\ inst'[i].motionTimeout = {}
            /\ MotionTimersOf(timers', i) = {}
     /\ \A h \in DOMAIN timers' :
          (/\ timers'[h].kind = "motion"
           /\ (h \notin DOMAIN timers \/ timers'[h].left > timers[h].left))
          => (lastOp'.op = "packet" /\ lastOp'.r = "new"
              /\ lastOp'.i = {timers'[h].inst})]_vars

\* Motion was disabled on an Active instance whose timer was not yet due.
C3_Witness ==
  /\ lastOp.op = "setMotionEnabled" /\ ~lastOp.v /\ lastOp.r = "active"
  /\ \E i \in lastOp.i :
       /\ ~inst[i].motionDetected
       /\ elapsed[i] = {}
       /\ inst[i].lastMotionTime > 0


\* --------------------------------------- one controller, reconciliation
\* One controller whose camera list changes between passes; the feed
\* carries motion timestamps only.
ReconcileLists ==
  {l \in CameraLists : Len(l) > 0 /\ l[1].id = "c1" /\ \A k \in DOMAIN l : l[k].led = {}}
ReconcilePackets ==
  {p \in Packets :
     /\ p.action # {} /\ p.payload # {}
     /\ Get(p.action, 0).action = "update"
     /\ Get(p.action, 0).modelKey = "camera"
     /\ Get(p.action, 0).id \in CamIds
     /\ Get(p.payload, 0).ledSettings = {}
     /\ \E m \in Get(p.payload, 0).lastMotion : m.kind = "num" /\ m.v = 1}

NextReconcile ==
  \/ DidFinishLaunching
  \/ ReconcileOf(OneController, ReconcileLists)
  \/ PacketOf(ReconcilePackets)
  \/ TimerFire
  \/ Tick

SpecReconcile == Init /\ [][NextReconcile]_vars

\* ------------------------------- one controller, the motion-enabled switch
\* The host restores an accessory of an earlier run, the controller's list
\* changes between passes, the user toggles the motion switch, and camera
\* c1 reports motion.
OverrideCached == {x \in CachedAccessories : x.UUID = uuidGenerate("A", "c1")}
OverridePackets == {p \in ReconcilePackets : Get(p.action, 0).id = "c1"}

NextOverride ==
  \/ ConfigureAccessoryOf(OverrideCached)
  \/ DidFinishLaunching
  \/ ReconcileOf(OneController, ReconcileLists)
  \/ PacketOf(OverridePackets)
  \/ SetMotionEnabled
  \/ TimerFire
  \/ Tick

SpecOverride == Init /\ [][NextOverride]_vars

\* ------------------------------------------------- one controller, LED
\* One controller that lists one camera at a time; the user toggles the LED
\* switch and the feed carries the LED settings of camera c1 only.
LedLists == {l \in CameraLists : Len(l) = 1 /\ l[1].led = {}}
LedPackets ==
  {p \in Packets :
     /\ p.action # {} /\ p.payload # {}
     /\ Get(p.action, 0).action = "update"
     /\ Get(p.action, 0).modelKey = "camera"
     /\ Get(p.action, 0).id = "c1"
     /\ Get(p.payload, 0).ledSettings # {}
     /\ Get(p.payload, 0).lastMotion = {}}

NextLed ==
  \/ DidFinishLaunching
  \/ ReconcileOf(OneController, LedLists)
  \/ PacketOf(LedPackets)
  \/ SetLedEnabled
  \/ LedResult
  \/ TimerFire
  \/ Tick

SpecLed == Init /\ [][NextLed]_vars

\* C4: a camera absent from a pass is removed from the accessories, and
\* removal cancels its motion timer: no motion timer is pending for an
\* instance whose accessory is no longer listed.
C4_RemovalCancelsTimer ==
  \A h \in DOMAIN timers :
    timers[h].kind = "motion" => inst[timers[h].inst].acc \in accessories

\* C5: after a camera was removed no handler is registered for its id: every
\* instance the routing map holds belongs to a listed accessory.
C5_RemovedCameraUnrouted ==
  \A c \in DOMAIN configured : inst[configured[c]].acc \in accessories


\* C6 as stated: when a push to the opposite value reached the instance
\* while its local toggle was pending, ledEnabled equals the pushed value
\* once the toggle has settled, whatever its outcome.
C6_PushWinsWhateverOutcome ==
  (lastOp.op = "ledResult" /\ lastOp.w # {} /\ lastOp.w # {lastOp.v}) =>
    \A i \in lastOp.i : i \in DOMAIN inst => {inst[i].ledEnabled} = lastOp.w

C8_SettleAfterRemovalIsNoOp ==
  [][lastOp'.op = "ledResult" =>
       \A i \in lastOp'.i :
         inst[i].acc \notin accessories =>
           /\ timers' = timers
           /\ i \in DOMAIN inst' => inst'[i].ledEnabled = inst[i].ledEnabled
           /\ inst[i].acc \in DOMAIN acc' =>
                acc'[inst[i].acc].charLed = acc[inst[i].acc].charLed]_vars

\* The motion and LED state of the instance that serves accessory a.
DeviceState(ac, ins, tm, a) ==
  {[motionDetected |-> ins[i].motionDetected,
    lastMotionTime |-> ins[i].lastMotionTime,
    armed |-> MotionTimersOf(tm, i) # {},
    ledEnabled |-> ins[i].ledEnabled] : i \in ac[a].onSet}

\* C9: a pass over a camera whose accessory already has a device state
\* leaves motionDetected, lastMotionTime, the armed timer and ledEnabled of
\* that device as they were and leaves the accessory with one device state.
C9_ReconcileKeepsDeviceState ==
  [][lastOp'.op = "reconcile" =>
       \A a \in accessories \cap accessories' :
         acc[a].onSet # {} =>
           /\ DeviceState(acc', inst', timers', a) = DeviceState(acc, inst, timers, a)
           /\ Cardinality({i \in DOMAIN inst' : inst'[i].acc = a}) = 1]_vars

\* C10: a listed accessory's motionEnabled is the value of its last local
\* toggle, or of the context the host restored, or true if there is neither;
\* once a pass has configured the accessory the context holds that value.
C10_MotionEnabledPreserved ==
  \A a \in accessories :
    /\ Get(acc[a].motionEnabled, TRUE) = expected[a]
    /\ acc[a].onSet # {} => acc[a].motionEnabled = {expected[a]}

\* A pass has just run over an accessory whose switch the user had turned
\* off.
C10_Witness ==
  /\ lastOp.op = "reconcile"
  /\ \E a \in accessories :
       /\ acc[a].statusActive = {FALSE}
       /\ acc[a].motionEnabled = {FALSE}
       /\ \E i \in acc[a].onSet : inst[i].lastMotionTime = 0 /\ maxSeen[i] = 0


\* ------------------------------------ one controller, connecting again
\* The host restores an accessory of controller A; the configuration lists
\* A up to MaxControllers times, once with a missing user name; a connection
\* fails, or succeeds with an empty or a non-empty camera list.
ConnectCached == {x \in CachedAccessories : x.controllerAddress = {"A"}}
ConnectConfigs ==
  OneController \cup {[address |-> "A", username |-> "", password |-> "p"]}

NextConnect ==
  \/ ConfigureAccessoryOf(ConnectCached)
  \/ DidFinishLaunching
  \/ SkipControllerOf(ConnectConfigs)
  \/ ConnectFailedOf(ConnectConfigs)
  \/ ConnectedNoCamerasOf(ConnectConfigs)
  \/ ReconcileOf(ConnectConfigs, ReconcileLists)
  \/ PacketOf(OverridePackets)
  \/ TimerFire
  \/ Tick

SpecConnect == Init /\ [][NextConnect]_vars

C12_ReconcileIdempotent ==
  [][(lastOp'.op \in {"reconcile", "noCameras"} /\ lastOp'.prev = {lastOp'.list}) =>
       /\ accessories' = accessories
       /\ \A a \in accessories : acc'[a].UUID = acc[a].UUID]_vars

\* A second pass with the two cameras of the first has just run.
C12_Witness ==
  /\ lastOp.op = "reconcile"
  /\ lastOp.prev = {lastOp.list}
  /\ Len(lastOp.list) = 2
  /\ Cardinality(accessories) = 2

\* C20: a failed connection changes no accessory, no device state, no
\* routing entry and no timer, and makes no subscription.
C20_FailedConnectTouchesNothing ==
  [][lastOp'.op = "connectFailed" =>
       /\ accessories' = accessories
       /\ acc' = acc
       /\ inst' = inst
       /\ configured' = configured
       /\ timers' = timers
       /\ subs' = subs]_vars

\* A connection to a controller failed while a device of an earlier pass for
\* that controller is listed.
C20_Witness ==
  /\ lastOp.op = "connectFailed"
  /\ \E a \in accessories :
       /\ acc[a].controllerAddress = lastOp.from
       /\ acc[a].onSet # {}
       /\ a \in {inst[configured[c]].acc : c \in DOMAIN configured}


\* ------------------------------------------- two controllers, one feed
\* Controllers A and B each list a camera with id c1; their feeds carry
\* well-formed and malformed packets, and the motion handler may raise.
TwoControllers ==
  {[address |-> c, username |-> "u", password |-> "p"] : c \in Controllers}
RouteAction == [action |-> "update", modelKey |-> "camera", id |-> "c1"]
RoutePayload == [lastMotion |-> {[kind |-> "num", v |-> 1]}, ledSettings |-> {FALSE}]
\* The packets that name c1 in a camera update and carry LED settings, with
\* or without a motion timestamp, and the packets that carry both but miss a
\* part or differ from such an update in one field.
RoutePackets ==
  {p \in Packets :
     \/ /\ p.action = {RouteAction}
        /\ \A x \in p.payload :
             /\ x.lastMotion \in {{}, RoutePayload.lastMotion}
             /\ x.ledSettings = RoutePayload.ledSettings
     \/ /\ p.payload = {RoutePayload}
        /\ \A x \in p.action :
             /\ x.id \in {"c1", "cX"}
             /\ Cardinality({f \in {"action", "modelKey", "id"} :
                               x[f] # RouteAction[f]}) = 1}

NextRoute ==
  \/ DidFinishLaunching
  \/ ReconcileOf(TwoControllers, MotionLists)
  \/ PacketOf(RoutePackets)
  \/ PacketThrowsOf(RoutePackets)
  \/ TimerFire
  \/ Tick

SpecRoute == Init /\ [][NextRoute]_vars

C14_DroppedPacketTouchesNothing ==
  [][(lastOp'.op = "packet" /\ lastOp'.why # "") =>
       /\ inst' = inst
       /\ timers' = timers
       /\ acc' = acc
       /\ configured' = configured
       /\ ledReqs' = ledReqs]_vars

\* A packet for a registered camera id but with modelKey "other" has been
\* dropped while that camera's instance is Active.
C14_Witness ==
  /\ lastOp.op = "packet" /\ lastOp.why = "modelKey"
  /\ \E c \in DOMAIN configured :
       /\ inst[configured[c]].motionDetected
       /\ MotionTimersOf(timers, configured[c]) # {}

C16_OneTimerWhileActive ==
  \A i \in DOMAIN inst :
    /\ inst[i].motionDetected => MotionTimersOf(timers, i) # {}
    /\ Cardinality(MotionTimersOf(timers, i)) <= 1
    /\ MotionTimersOf(timers, i) \subseteq inst[i].motionTimeout

\* An Active instance whose timer had run down in part was triggered again
\* with the largest timestamp and holds exactly one timer.
C16_Witness ==
  /\ lastOp.op = "packet" /\ lastOp.r = "new" /\ lastOp.v
  /\ \E i \in lastOp.i :
       /\ inst[i].lastMotionTime = MaxT
       /\ Cardinality(MotionTimersOf(timers, i)) = 1
       /\ inst[i].motionTimeout = MotionTimersOf(timers, i)

\* C17: handleMotionEvent(t) with t above lastMotionTime on an instance whose
\* motionEnabled is false writes t to lastMotionTime, leaves motionDetected
\* false, and changes no timer and no value of any accessory.
C17_DisabledEventOnlyAdvancesTimestamp ==
  [][(lastOp'.op = "packet" /\ lastOp'.r = "new") =>
       \A i \in lastOp'.i :
         ~isMotionEnabled(St, i) =>
           /\ inst'[i].lastMotionTime = maxSeen'[i]
           /\ inst'[i].lastMotionTime > inst[i].lastMotionTime
           /\ ~inst'[i].motionDetected
           /\ inst'[i].motionDetected = inst[i].motionDetected
           /\ inst'[i].motionTimeout = inst[i].motionTimeout
           /\ timers' = timers
           /\ acc' = acc]_vars

\* A new timestamp has reached an instance whose motion switch is off.
C17_Witness ==
  /\ lastOp.op = "packet" /\ lastOp.r = "new"
  /\ \E i \in lastOp.i :
       /\ ~isMotionEnabled(St, i)
       /\ inst[i].lastMotionTime > 0
       /\ ~inst[i].motionDetected
       /\ MotionTimersOf(timers, i) = {}

\* C18: setMotionEnabled(true) on an Idle instance changes no field of the
\* instance, no timer and not the motion signal; afterwards a timestamp at or
\* below one the instance was handed (also while disabled) does not change
\* motionDetected, and a greater one sets it.
C18_EnableWhileIdle ==
  [][/\ (lastOp'.op = "setMotionEnabled" /\ lastOp'.v /\ lastOp'.r = "idle") =>
          \A i \in lastOp'.i :
            /\ inst'[i] = inst[i]
            /\ timers' = timers
            /\ acc'[inst[i].acc].charMotion = acc[inst[i].acc].charMotion
     /\ (lastOp'.op = "packet" /\ lastOp'.r = "dup") =>
          \A i \in lastOp'.i : inst'[i].motionDetected = inst[i].motionDetected
     /\ (lastOp'.op = "packet" /\ lastOp'.r = "new") =>
          \A i \in lastOp'.i : isMotionEnabled(St, i) => inst'[i].motionDetected]_vars

\* Motion is enabled again and Idle, and the timestamp that arrived while it
\* was disabled has just been repeated without effect.
C18_Witness ==
  /\ lastOp.op = "packet" /\ lastOp.r = "dup" /\ ~lastOp.v
  /\ \E i \in lastOp.i :
       /\ isMotionEnabled(St, i)
       /\ acc[inst[i].acc].statusActive = {TRUE}
       /\ elapsed[i] = {}
       /\ inst[i].lastMotionTime > 0
       /\ ~inst[i].motionDetected

\* C19: when the remote update of a toggle has returned a truthy result,
\* ledEnabled is the requested value.
C19_SuccessCommits ==
  (lastOp.op = "ledResult" /\ lastOp.r = "true") =>
    \A i \in lastOp.i : i \in DOMAIN inst => inst[i].ledEnabled = lastOp.v

\* A toggle to off succeeded with no push in between.
C19_Witness ==
  /\ lastOp.op = "ledResult" /\ lastOp.r = "true"
  /\ ~lastOp.v /\ lastOp.w = {}
  /\ \E i \in lastOp.i :
       /\ i \in DOMAIN inst
       /\ ~inst[i].ledEnabled
       /\ acc[inst[i].acc].charLed = {FALSE}
       /\ inst[i].acc \in accessories


\* --------------------------------------- two controllers, stale devices
\* The host restores an accessory of controller A or B; each entry of the
\* configuration names A or B, whose live list is c1 or c1 and c2; camera c1
\* reports motion.
ScopeCached == {x \in CachedAccessories : x.motionEnabled = {}}

NextScope ==
  \/ ConfigureAccessoryOf(ScopeCached)
  \/ DidFinishLaunching
  \/ ReconcileOf(TwoControllers, ReconcileLists)
  \/ PacketOf(OverridePackets)
  \/ TimerFire
  \/ Tick

SpecScope == Init /\ [][NextScope]_vars

\* C21: a pass for a controller leaves every listed accessory whose context
\* names another controller listed, and leaves its context, its values and
\* its handlers as they were.
C21_RemovalScoped ==
  [][lastOp'.op = "reconcile" =>
       \A a \in accessories :
         acc[a].controllerAddress # lastOp'.from =>
           /\ a \in accessories'
           /\ acc'[a] = acc[a]]_vars

\* A pass for a controller has just removed its camera c2 while an accessory
\* of the other controller for a camera with the same id stays listed.
C21_Witness ==
  /\ lastOp.op = "reconcile"
  /\ lastOp.prev # {} /\ \A l \in lastOp.prev : Len(l) = 2
  /\ Len(lastOp.list) = 1
  /\ \A a \in accessories : acc[a].UUID # uuidGenerate(Get(lastOp.from, ""), "c2")
  /\ \E a \in accessories, c \in Controllers :
       /\ {c} # lastOp.from
       /\ acc[a].controllerAddress = {c}
       /\ acc[a].UUID = uuidGenerate(c, "c2")


\* ------------------------------------------ one device, packet payloads
\* One controller with camera c1; every packet is an update of c1 whose
\* payload carries, or not, a motion timestamp (null included) and LED
\* settings.
DispatchPackets ==
  {p \in Packets :
     /\ p.action = {RouteAction}
     /\ \A x \in p.payload :
          x.lastMotion \in {{}, {[kind |-> "null", v |-> 0]},
                            {[kind |-> "num", v |-> 1]}}}

NextDispatch ==
  \/ DidFinishLaunching
  \/ ReconcileOf(OneController, MotionLists)
  \/ PacketOf(DispatchPackets)
  \/ TimerFire
  \/ Tick

SpecDispatch == Init /\ [][NextDispatch]_vars

\* C22: for a dispatched packet the motion handler is called exactly when
\* the payload has lastMotion, the LED handler exactly when it has
\* ledSettings, the motion handler first; the motion state changes only with
\* the first and the LED state is the pushed value exactly with the second.
C22_HandlersByField ==
  [][(lastOp'.op = "packet" /\ lastOp'.i # {}) =>
       LET motion == lastOp'.r # "nomotion"
           led    == lastOp'.w # {}
       IN
       /\ lastOp'.calls =
            (IF motion THEN <<"handleMotionEvent">> ELSE <<>>)
            \o (IF led THEN <<"handleLedSettingsUpdate">> ELSE <<>>)
       /\ \A i \in lastOp'.i :
            /\ ~motion =>
                 /\ inst'[i].lastMotionTime = inst[i].lastMotionTime
                 /\ inst'[i].motionDetected = inst[i].motionDetected
                 /\ timers' = timers
            /\ lastOp'.r = "new" =>
                 /\ inst'[i].lastMotionTime = maxSeen'[i]
                 /\ inst'[i].lastMotionTime > inst[i].lastMotionTime
            /\ led =>
                 /\ {inst'[i].ledEnabled} = lastOp'.w
                 /\ acc'[inst[i].acc].charLed = lastOp'.w
            /\ ~led =>
                 /\ inst'[i].ledEnabled = inst[i].ledEnabled
                 /\ acc'[inst[i].acc].charLed = acc[inst[i].acc].charLed]_vars

\* One packet carried a new motion timestamp and LED settings: both handlers
\* ran, motion first.
C22_Witness ==
  /\ lastOp.op = "packet" /\ lastOp.r = "new" /\ lastOp.w = {FALSE}
  /\ lastOp.calls = <<"handleMotionEvent", "handleLedSettingsUpdate">>
  /\ \E i \in lastOp.i :
       /\ inst[i].motionDetected
       /\ ~inst[i].ledEnabled


\* C23: lastMotionTime of an instance is 0 when the instance is created and
\* no step lowers it.
C23_TimestampMonotone ==
  [][\A i \in DOMAIN inst' :
       IF i \in DOMAIN inst
       THEN inst'[i].lastMotionTime >= inst[i].lastMotionTime
       ELSE inst'[i].lastMotionTime = 0]_vars

\* An Active instance that holds the largest timestamp was handed a
\* timestamp it had seen, and kept the largest.
C23_Witness ==
  /\ lastOp.op = "packet" /\ lastOp.r = "dup" /\ lastOp.v
  /\ \E i \in lastOp.i :
       /\ inst[i].lastMotionTime = MaxT
       /\ maxSeen[i] = MaxT
       /\ inst[i].motionDetected


\* ------------------------------------------------- a ProtectClient alone
\* The calls a user of ProtectClient can make, in any order, and the packets
\* its api emits.
\* get cameras(): this.bootstrap?.cameras ?? [], bootstrap being null when
\* the client is not connected or the api has none.
cameras(c) ==
  IF ~c.connected \/ c.apiBootstrap = {} THEN <<>>
  ELSE CHOOSE l \in c.apiBootstrap : TRUE

ClientCameraLists == {<<>>, <<[id |-> "c1", name |-> "n1", led |-> {}]>>}

ClientConnect ==
  /\ client.listeners < MaxConnects
  /\ \E login \in {"true", "false", "throw"},
        boot \in {"true", "false", "throw", "none"},
        cams \in ClientCameraLists :
       /\ (login = "true") = (boot # "none")
       /\ (login = "true" /\ boot = "true") \/ cams = <<>>
       /\ LET ret == connect(client, login, boot, cams) IN
          /\ client' = ret.client
          /\ clientOut' = [Out("connect", ret) EXCEPT !.login = login, !.boot = boot]
  /\ UNCHANGED platformVars

ClientOnMessage ==
  /\ clientOut.reg < MaxHandlers
  /\ client' = onMessage(client, clientOut.reg + 1)
  /\ clientOut' = [Out("onMessage", Ret(client, "return", FALSE, {})) EXCEPT
                     !.reg = @ + 1]
  /\ UNCHANGED platformVars

ClientUpdateCameraLed ==
  /\ client.ledPending = {}
  /\ \E enabled \in BOOLEAN :
       LET ret == updateCameraLed(client, enabled) IN
       /\ client' = ret.client
       /\ clientOut' = [Out("updateCameraLed", ret) EXCEPT
                          !.remote = IF ret.kind = "await" THEN "sent" ELSE "",
                          !.sentConnected = client.connected]
  /\ UNCHANGED platformVars

ClientLedSettle ==
  /\ client.ledPending # {}
  /\ \E result \in {"true", "false", "throw"} :
       LET ret == updateCameraLedResume(client, result) IN
       /\ client' = ret.client
       /\ clientOut' = [Out("updateCameraLed", ret) EXCEPT
                          !.remote = result,
                          !.wasConnected = clientOut.sentConnected]
  /\ UNCHANGED platformVars

ClientDisconnect ==
  /\ client' = disconnect(client)
  /\ clientOut' = [Out("disconnect", Ret(client, "return", FALSE, {})) EXCEPT
                     !.calledOff = @ \cup Range(client.messageHandlers),
                     !.cleared = IF client.connected
                                 THEN @ \cup Range(client.messageHandlers)
                                 ELSE @]
  /\ UNCHANGED platformVars

\* this.api emits 'message': every listener connect has added calls
\* handleMessage.
ClientMessage ==
  /\ client.listeners > 0
  /\ clientOut' = [Out("message", Ret(client, "return", FALSE, {})) EXCEPT
                     !.invoked = Range(handleMessage(client))]
  /\ UNCHANGED <<client, platformVars>>

\* Somebody constructs a ProtectApiError.
NewErrorOf(codes) ==
  /\ \E statusCode \in codes :
       clientOut' = Out("newError", Ret(client, "return", FALSE,
                                        {ProtectApiError(statusCode)}))
  /\ UNCHANGED <<client, platformVars>>

NextClient ==
  \/ ClientConnect
  \/ ClientOnMessage
  \/ ClientUpdateCameraLed
  \/ ClientLedSettle
  \/ ClientDisconnect
  \/ ClientMessage
  \/ NewErrorOf(StatusCodes)

SpecClient == Init /\ [][NextClient]_vars

\* C24: the isAuthError of every ProtectApiError is true exactly when its
\* status code is 401 or 403; it is false without a status code.
C24_IsAuthError ==
  \A e \in clientOut.err :
    /\ e.isAuthError = (e.statusCode \in {{401}, {403}})
    /\ e.statusCode = {} => ~e.isAuthError

\* An error was constructed with status code 403.
C24_Witness ==
  /\ clientOut.call = "newError"
  /\ \E e \in clientOut.err : e.statusCode = {403} /\ e.isAuthError


\* C25: in every quiescent state (no remote LED update in flight, no revert
\* pending) the LED switch of every listed accessory shows the ledEnabled of
\* the instance that serves it.
C25_QuiescentLedAgrees ==
  (DOMAIN ledReqs = {} /\ RevertTimers(timers) = {}) =>
    \A a \in accessories :
      \A i \in acc[a].onSet : acc[a].charLed = {inst[i].ledEnabled}


\* C26: motionDetected implies motionEnabled: for every listed accessory,
\* neither the motionDetected of the instance that serves it nor its exposed
\* motion signal is true while its motionEnabled is false.
C26_MotionOnlyWhileEnabled ==
  \A a \in accessories :
    ~Get(acc[a].motionEnabled, TRUE) =>
      /\ acc[a].charMotion # {TRUE}
      /\ \A i \in acc[a].onSet : ~inst[i].motionDetected

\* The user has switched motion off on a camera, and a new timestamp has
\* just reached its instance.
C26_Witness ==
  /\ lastOp.op = "packet" /\ lastOp.r = "new"
  /\ \E a \in accessories :
       /\ acc[a].motionEnabled = {FALSE}
       /\ expected[a] = FALSE
       /\ acc[a].charMotion = {FALSE}
       /\ \E i \in acc[a].onSet \cap lastOp.i : inst[i].lastMotionTime = MaxT


\* C27: the controller entries are dealt with one after the other in the
\* order of the configuration (ctrlIdx only ever advances, by one entry per
\* step), and an entry that is skipped or whose connection fails does not
\* end the loop: the step moves on to the entry after it and leaves the
\* platform launched, which is all that connecting that entry requires.
C27_LaterControllersNotPrevented ==
  [][/\ ctrlIdx' # ctrlIdx => ctrlIdx' = ctrlIdx + 1
     /\ lastOp'.op \in {"skip", "connectFailed"} =>
          /\ ctrlIdx' = ctrlIdx + 1
          /\ launched'
          /\ ctrlIdx' <= MaxControllers]_vars

\* The first entry was skipped or failed to connect, and the entry after it
\* has just been connected and reconciled.
C27_Witness ==
  /\ lastOp.op = "reconcile" /\ lastOp.prev = {}
  /\ ctrlIdx = 2
  /\ DOMAIN lastList = lastOp.from
  /\ \E a \in accessories : acc[a].controllerAddress = lastOp.from /\ acc[a].onSet # {}


\* C28: connect returns true or raises a ProtectApiError and never returns
\* false: it returns true exactly when login and bootstrap both succeeded; a
\* rejected login raises an error whose isAuthError is true, a failed
\* bootstrap or any other error one whose isAuthError is false; and
\* connected becomes true only in a connect that returns true.
C28_ConnectTrueOrRaises ==
  [][/\ clientOut'.call = "connect" =>
          /\ clientOut'.kind \in {"return", "raise"}
          /\ (clientOut'.kind = "return") =
               (clientOut'.login = "true" /\ clientOut'.boot = "true")
          /\ clientOut'.kind = "return" =>
               /\ clientOut'.value = TRUE
               /\ clientOut'.err = {}
               /\ client'.connected
          /\ clientOut'.kind = "raise" =>
               /\ \E e \in clientOut'.err :
                    /\ clientOut'.err = {e}
                    /\ e.name = "ProtectApiError"
                    /\ e.isAuthError = (clientOut'.login = "false")
               /\ client'.connected = client.connected
     /\ (client'.connected /\ ~client.connected) =>
          /\ clientOut'.call = "connect"
          /\ clientOut'.kind = "return" /\ clientOut'.value = TRUE
          /\ clientOut'.login = "true" /\ clientOut'.boot = "true"]_vars

\* The controller has rejected the login of a client that is not connected.
C28_Witness ==
  /\ clientOut.call = "connect" /\ clientOut.kind = "raise"
  /\ clientOut.login = "false"
  /\ ~client.connected
  /\ \E e \in clientOut.err : e.isAuthError /\ e.statusCode = {401}


\* What C29 says of a client that is not connected, and of disconnect: the
\* client is not connected after disconnect, the cameras of a client that is
\* not connected are empty, updateCameraLed called on it returns false at
\* once without sending the remote update, and disconnect changes nothing on
\* it.
DisconnectedClientIsInert ==
  /\ clientOut'.call = "disconnect" => ~client'.connected
  /\ ~client'.connected => cameras(client') = <<>>
  /\ (clientOut'.call = "updateCameraLed" /\ ~clientOut'.wasConnected) =>
       /\ clientOut'.kind = "return" /\ clientOut'.value = FALSE
       /\ clientOut'.remote = ""
       /\ client' = client
  /\ (clientOut'.call = "disconnect" /\ ~client.connected) => client' = client

\* C29 as stated: no handler that was registered when disconnect was called
\* is invoked for a later packet; after disconnect the cameras are empty and
\* updateCameraLed returns false without the remote update; a second
\* disconnect changes nothing.
C29_NoHandlerAfterDisconnect ==
  [][/\ clientOut'.invoked \cap clientOut'.calledOff = {}
     /\ DisconnectedClientIsInert]_vars

\* C29, amended: no handler that was registered when disconnect was called
\* on a connected client is invoked for a later packet (disconnect on a
\* client that is not connected leaves its handlers registered); after
\* disconnect the cameras are empty and updateCameraLed returns false
\* without the remote update; a second disconnect changes nothing.
C29_NoHandlerAfterDisconnectOfConnected ==
  [][/\ clientOut'.invoked \cap clientOut'.cleared = {}
     /\ DisconnectedClientIsInert]_vars

\* A connected client with a handler was disconnected and connected again;
\* a packet has just reached the handler registered since, and only that.
C29_Witness ==
  /\ clientOut.call = "message"
  /\ clientOut.cleared # {}
  /\ clientOut.invoked # {}
  /\ clientOut.invoked \cap clientOut.cleared = {}
  /\ client.connected


\* C30: updateCameraLed never raises; it returns true exactly when the
\* client was connected at the call and the remote update returned a truthy
\* result; it returns false, without the remote update, when the client was
\* not connected, and false when the remote update returned a falsy result
\* or raised.
C30_UpdateCameraLedNeverRaises ==
  clientOut.call = "updateCameraLed" =>
    /\ clientOut.kind \in {"return", "await"}
    /\ clientOut.err = {}
    /\ clientOut.kind = "await" => clientOut.wasConnected
    /\ clientOut.kind = "return" =>
         /\ clientOut.value = (clientOut.wasConnected /\ clientOut.remote = "true")
         /\ clientOut.wasConnected => clientOut.remote \in {"true", "false", "throw"}
         /\ ~clientOut.wasConnected => clientOut.remote = ""

\* The remote update of a connected client has raised, and updateCameraLed
\* has returned false.
C30_Witness ==
  /\ clientOut.call = "updateCameraLed" /\ clientOut.kind = "return"
  /\ clientOut.wasConnected /\ clientOut.remote = "throw"
  /\ clientOut.value = FALSE
  /\ client.ledPending = {}

====
